---- MODULE Spec2Model ----
(***************************************************************************)
(* A model of the to-do list application of src/main.rs: the               *)
(* TaskRepository (tasks and next_id) with its four mutations, its RON     *)
(* persistence through save_to_file / load_from_file, and the egui shell   *)
(* ToDoApp::update that drives it.                                         *)
(*                                                                         *)
(* Text is modelled as a sequence of one-character strings, so a file is   *)
(* the sequence of characters that ron::ser::to_string produces and        *)
(* ron::de::from_str is a parser over such a sequence.                     *)
(***************************************************************************)
EXTENDS Integers, Sequences, FiniteSets, TLC

VARIABLES
    manager,           \* ToDoApp.manager: the TaskRepository [tasks, next_id]
    file,              \* the file FILE_NAME: [present, data]
    new_description,   \* ToDoApp.new_description
    edit_description,  \* ToDoApp.edit_description
    show_edit_popup,   \* ToDoApp.show_edit_popup
    edit_id_task,      \* ToDoApp.edit_id_task : Option<usize>
    panicked,          \* the process died in an unwrap()
    ret,               \* value returned by the last call when it was load_from_file
    last,              \* the last call: [op, id, io]
    ever,              \* history: every id that was ever in manager.tasks
    assigned           \* history: the ids given out by add_task, in order

vars == <<manager, file, new_description, edit_description, show_edit_popup,
          edit_id_task, panicked, ret, last, ever, assigned>>

----------------------------------------------------------------------------
(* Bounds and input sets *)

\* add_task is not called once next_id has reached this value
MaxNextId == 2

\* the descriptions the operations are called with: the empty text and a text
\* holding a plain character, a double quote and a backslash
Descriptions == { <<>>, <<"a", "\"", "\\">> }

\* the ids the operations are called with: one more than can ever be assigned
Ids == 0..MaxNextId

----------------------------------------------------------------------------
(* Data *)

\* struct Task
Task(id, description, completed) ==
    [id |-> id, description |-> description, completed |-> completed]

\* struct TaskRepository
TaskRepository(tasks, next_id) == [tasks |-> tasks, next_id |-> next_id]

\* #[derive(Default)] for TaskRepository: no tasks, next_id = 0
default == TaskRepository(<<>>, 0)

\* Option<T>
None == [some |-> FALSE, val |-> 0]
Some(v) == [some |-> TRUE, val |-> v]

\* the file system entry FILE_NAME
NoFile == [present |-> FALSE, data |-> <<>>]
FileOf(data) == [present |-> TRUE, data |-> data]

TaskIds(tasks) == { tasks[i].id : i \in 1..Len(tasks) }

----------------------------------------------------------------------------
(* The four mutations of TaskRepository *)

\* tasks.push(Task { id: next_id, description, completed: false }); next_id += 1
add_task(repo, description) ==
    TaskRepository(Append(repo.tasks, Task(repo.next_id, description, FALSE)),
                   repo.next_id + 1)

\* tasks.iter_mut().find(|task| task.id == id): index of the first match, 0 if none
find(tasks, id) ==
    IF \E i \in 1..Len(tasks) : tasks[i].id = id
    THEN CHOOSE i \in 1..Len(tasks) :
            /\ tasks[i].id = id
            /\ \A j \in 1..(i - 1) : tasks[j].id # id
    ELSE 0

\* edit_task that adds the task when no task has the id
edit_task_upsert(repo, id, description) ==
    LET i == find(repo.tasks, id) IN
    IF i = 0
    THEN [repo EXCEPT !.tasks = Append(repo.tasks, Task(id, description, FALSE))]
    ELSE [repo EXCEPT !.tasks[i].description = description]

\* edit_task that replaces the task by a fresh one, losing the completed flag
edit_task_fresh(repo, id, description) ==
    LET i == find(repo.tasks, id) IN
    IF i = 0 THEN repo
    ELSE [repo EXCEPT !.tasks[i] = Task(id, description, FALSE)]

edit_task(repo, id, description) ==
    LET i == find(repo.tasks, id) IN
    IF i = 0 THEN repo
    ELSE [repo EXCEPT !.tasks[i].description = description]

\* delete_task that takes the next id from the number of tasks left
delete_task_recount(repo, id) ==
    LET left == SelectSeq(repo.tasks, LAMBDA t : t.id # id) IN
    TaskRepository(left, Len(left))

\* tasks.retain(|task| task.id != id)
delete_task(repo, id) ==
    [repo EXCEPT !.tasks = SelectSeq(repo.tasks, LAMBDA t : t.id # id)]

\* mark_completed that flips the flag
mark_completed_toggle(repo, id) ==
    LET i == find(repo.tasks, id) IN
    IF i = 0 THEN repo
    ELSE [repo EXCEPT !.tasks[i].completed = ~repo.tasks[i].completed]

mark_completed(repo, id) ==
    LET i == find(repo.tasks, id) IN
    IF i = 0 THEN repo
    ELSE [repo EXCEPT !.tasks[i].completed = TRUE]

----------------------------------------------------------------------------
(* ron::ser::to_string for TaskRepository (derive(Serialize)), compact form: *)
(*   (tasks:[(id:0,description:"a",completed:false)],next_id:1)              *)

DigitChars == <<"0", "1", "2", "3", "4", "5", "6", "7", "8", "9">>

RECURSIVE usize_to_text(_)
usize_to_text(n) ==
    IF n < 10 THEN <<DigitChars[n + 1]>>
    ELSE usize_to_text(n \div 10) \o <<DigitChars[(n % 10) + 1]>>

\* char::escape_debug on the characters of a description
escape_debug(c) ==
    IF c = "\"" \/ c = "\\" \/ c = "'" THEN <<"\\", c>>
    ELSE IF c = "\n" THEN <<"\\", "n">>
    ELSE IF c = "\t" THEN <<"\\", "t">>
    ELSE IF c = "\r" THEN <<"\\", "r">>
    ELSE <<c>>

RECURSIVE escape_all(_)
escape_all(v) ==
    IF v = <<>> THEN <<>> ELSE escape_debug(Head(v)) \o escape_all(Tail(v))

serialize_str(v) == <<"\"">> \o escape_all(v) \o <<"\"">>

serialize_bool(b) ==
    IF b THEN <<"t", "r", "u", "e">> ELSE <<"f", "a", "l", "s", "e">>

KwId == <<"(", "i", "d", ":">>
KwDescription == <<",", "d", "e", "s", "c", "r", "i", "p", "t", "i", "o", "n", ":">>
KwCompleted == <<",", "c", "o", "m", "p", "l", "e", "t", "e", "d", ":">>
KwTasks == <<"(", "t", "a", "s", "k", "s", ":">>
KwNextId == <<",", "n", "e", "x", "t", "_", "i", "d", ":">>

serialize_task(t) ==
    KwId \o usize_to_text(t.id) \o KwDescription \o serialize_str(t.description)
         \o KwCompleted \o serialize_bool(t.completed) \o <<")">>

RECURSIVE serialize_seq(_)
serialize_seq(tasks) ==
    IF tasks = <<>> THEN <<>>
    ELSE IF Len(tasks) = 1 THEN serialize_task(tasks[1])
    ELSE serialize_task(Head(tasks)) \o <<",">> \o serialize_seq(Tail(tasks))

to_string(repo) ==
    KwTasks \o <<"[">> \o serialize_seq(repo.tasks) \o <<"]">>
            \o KwNextId \o usize_to_text(repo.next_id) \o <<")">>

----------------------------------------------------------------------------
(* ron::de::from_str for TaskRepository (derive(Deserialize)).  The parser   *)
(* accepts the compact form that to_string writes (fields in declaration     *)
(* order, no white space) and rejects every other text.                      *)

ParseErr == [ok |-> FALSE, pos |-> 0, val |-> 0]
ParseOk(pos, val) == [ok |-> TRUE, pos |-> pos, val |-> val]

\* position after the literal w when s holds w at position i, else 0
consume(s, i, w) ==
    IF i >= 1 /\ i + Len(w) - 1 <= Len(s) /\ SubSeq(s, i, i + Len(w) - 1) = w
    THEN i + Len(w)
    ELSE 0

IsDigit(c) == \E d \in 1..10 : DigitChars[d] = c
DigitVal(c) == (CHOOSE d \in 1..10 : DigitChars[d] = c) - 1

RECURSIVE digits(_, _, _)
digits(s, i, acc) ==
    IF i <= Len(s) /\ IsDigit(s[i])
    THEN digits(s, i + 1, acc * 10 + DigitVal(s[i]))
    ELSE ParseOk(i, acc)

unsigned_integer(s, i) ==
    IF i >= 1 /\ i <= Len(s) /\ IsDigit(s[i]) THEN digits(s, i, 0) ELSE ParseErr

\* the character an escape sequence \c stands for
parse_escape(c) ==
    IF c = "\"" \/ c = "\\" \/ c = "'" THEN ParseOk(0, c)
    ELSE IF c = "n" THEN ParseOk(0, "\n")
    ELSE IF c = "t" THEN ParseOk(0, "\t")
    ELSE IF c = "r" THEN ParseOk(0, "\r")
    ELSE ParseErr

RECURSIVE escaped_string(_, _, _)
escaped_string(s, i, acc) ==
    IF i > Len(s) THEN ParseErr
    ELSE IF s[i] = "\"" THEN ParseOk(i + 1, acc)
    ELSE IF s[i] = "\\" THEN
        IF i + 1 > Len(s) THEN ParseErr
        ELSE LET e == parse_escape(s[i + 1]) IN
             IF e.ok THEN escaped_string(s, i + 2, Append(acc, e.val)) ELSE ParseErr
    ELSE escaped_string(s, i + 1, Append(acc, s[i]))

parse_string(s, i) ==
    IF i >= 1 /\ i <= Len(s) /\ s[i] = "\"" THEN escaped_string(s, i + 1, <<>>)
    ELSE ParseErr

parse_bool(s, i) ==
    IF consume(s, i, serialize_bool(TRUE)) > 0
    THEN ParseOk(i + Len(serialize_bool(TRUE)), TRUE)
    ELSE IF consume(s, i, serialize_bool(FALSE)) > 0
    THEN ParseOk(i + Len(serialize_bool(FALSE)), FALSE)
    ELSE ParseErr

\* the fields of a struct are read one after the other: each step is one
\* operator that checks the result r of the step before and starts the next
task_close(s, id, description, r) ==
    IF r.ok /\ consume(s, r.pos, <<")">>) > 0
    THEN ParseOk(r.pos + 1, Task(id, description, r.val))
    ELSE ParseErr

task_completed(s, id, r) ==
    IF r.ok /\ consume(s, r.pos, KwCompleted) > 0
    THEN task_close(s, id, r.val, parse_bool(s, r.pos + Len(KwCompleted)))
    ELSE ParseErr

task_description(s, r) ==
    IF r.ok /\ consume(s, r.pos, KwDescription) > 0
    THEN task_completed(s, r.val, parse_string(s, r.pos + Len(KwDescription)))
    ELSE ParseErr

parse_task(s, i) ==
    IF consume(s, i, KwId) > 0
    THEN task_description(s, unsigned_integer(s, i + Len(KwId)))
    ELSE ParseErr

RECURSIVE parse_elements(_, _, _)
\* after one element t of the sequence: a comma and the next one, or the end
element_next(s, acc, t) ==
    IF ~t.ok THEN ParseErr
    ELSE IF consume(s, t.pos, <<",">>) > 0
    THEN parse_elements(s, t.pos + 1, Append(acc, t.val))
    ELSE IF consume(s, t.pos, <<"]">>) > 0
    THEN ParseOk(t.pos + 1, Append(acc, t.val))
    ELSE ParseErr

parse_elements(s, i, acc) == element_next(s, acc, parse_task(s, i))

parse_seq(s, i) ==
    IF consume(s, i, <<"[">>) = 0 THEN ParseErr
    ELSE IF consume(s, i + 1, <<"]">>) > 0 THEN ParseOk(i + 2, <<>>)
    ELSE parse_elements(s, i + 1, <<>>)

repository_close(s, tasks, r) ==
    IF r.ok /\ consume(s, r.pos, <<")">>) > 0 /\ r.pos = Len(s)
    THEN ParseOk(r.pos + 1, TaskRepository(tasks, r.val))
    ELSE ParseErr

repository_next_id(s, r) ==
    IF r.ok /\ consume(s, r.pos, KwNextId) > 0
    THEN repository_close(s, r.val, unsigned_integer(s, r.pos + Len(KwNextId)))
    ELSE ParseErr

\* Result<TaskRepository>: [ok, val]; the text must end after the struct
from_str(s) ==
    IF consume(s, 1, KwTasks) > 0
    THEN repository_next_id(s, parse_seq(s, 1 + Len(KwTasks)))
    ELSE ParseErr

----------------------------------------------------------------------------
(* Persistence: save_to_file and load_from_file against the file FILE_NAME *)

\* what the file system can answer to save_to_file: File::create fails, or
\* write_all fails after the file was created (and truncated), or both succeed
SaveOutcomes == {"ok", "create_err", "write_err"}

\* what the file system can answer to load_from_file: File::open fails,
\* read_to_string fails, or both succeed
LoadOutcomes == {"ok", "open_err", "read_err"}

\* how many characters a failing write_all may have written before the error:
\* none, or all but the last
PartialWrites(data) == {0, Len(data) - 1}

\* the file when it is opened for appending instead of being truncated
written_append(f, data) == FileOf(f.data \o data)

\* the file after File::create(FILE_NAME) and write_all(data) went well
written(f, data) == FileOf(data)

\* [file, panicked] after save_to_file; to_string(self) is always Ok for this
\* type; n is the number of characters a failing write_all got out
save_to_file(repo, f, io, n) ==
    LET data == to_string(repo) IN
    IF io = "create_err" THEN [file |-> f, panicked |-> FALSE]
    ELSE IF io = "write_err"
    THEN [file |-> FileOf(SubSeq(data, 1, n)), panicked |-> TRUE]
    ELSE [file |-> written(f, data), panicked |-> FALSE]

\* load_from_file that does not look at the result of read_to_string
load_from_file_unchecked_read(f, io) ==
    IF ~f.present \/ io = "open_err" THEN default
    ELSE LET r == from_str(f.data) IN
         IF r.ok THEN r.val ELSE default

load_from_file(f, io) ==
    IF ~f.present \/ io = "open_err" THEN default
    ELSE IF io = "read_err" THEN default
    ELSE LET r == from_str(f.data) IN
         IF r.ok THEN r.val ELSE default

\* the (io, n) pairs a save can meet for the repository repo
SaveCases(repo) ==
    { <<"ok", 0>>, <<"create_err", 0>> }
    \cup { <<"write_err", n>> : n \in PartialWrites(to_string(repo)) }

----------------------------------------------------------------------------
(* The repository driven directly: one action per call *)

Call(op, id, io) == [op |-> op, id |-> id, io |-> io]

ShellIdle ==
    UNCHANGED <<new_description, edit_description, show_edit_popup, edit_id_task>>

\* the history variables follow the repository
History(repo) == ever' = ever \cup TaskIds(repo.tasks)

Init ==
    /\ manager = default
    /\ file = NoFile
    /\ new_description = <<>>
    /\ edit_description = <<>>
    /\ show_edit_popup = FALSE
    /\ edit_id_task = None
    /\ panicked = FALSE
    /\ ret = None
    /\ last = Call("new", 0, "none")
    /\ ever = {}
    /\ assigned = <<>>

AddTask(description) ==
    /\ ~panicked
    /\ manager.next_id < MaxNextId
    /\ manager' = add_task(manager, description)
    /\ assigned' = Append(assigned, manager'.tasks[Len(manager'.tasks)].id)
    /\ last' = Call("add_task", manager'.tasks[Len(manager'.tasks)].id, "none")
    /\ History(manager')
    /\ ret' = None
    /\ ShellIdle
    /\ UNCHANGED <<file, panicked>>

EditTask(id, description) ==
    /\ ~panicked
    /\ manager' = edit_task(manager, id, description)
    /\ last' = Call("edit_task", id, "none")
    /\ History(manager')
    /\ ret' = None
    /\ ShellIdle
    /\ UNCHANGED <<file, panicked, assigned>>

DeleteTask(id) ==
    /\ ~panicked
    /\ manager' = delete_task(manager, id)
    /\ last' = Call("delete_task", id, "none")
    /\ History(manager')
    /\ ret' = None
    /\ ShellIdle
    /\ UNCHANGED <<file, panicked, assigned>>

MarkCompleted(id) ==
    /\ ~panicked
    /\ manager' = mark_completed(manager, id)
    /\ last' = Call("mark_completed", id, "none")
    /\ History(manager')
    /\ ret' = None
    /\ ShellIdle
    /\ UNCHANGED <<file, panicked, assigned>>

SaveToFile ==
    /\ ~panicked
    /\ \E c \in SaveCases(manager) :
        LET s == save_to_file(manager, file, c[1], c[2]) IN
        /\ file' = s.file
        /\ panicked' = s.panicked
        /\ last' = Call("save_to_file", 0, c[1])
    /\ ret' = None
    /\ ShellIdle
    /\ UNCHANGED <<manager, ever, assigned>>

LoadFromFile ==
    /\ ~panicked
    /\ \E io \in LoadOutcomes :
        /\ ret' = Some(load_from_file(file, io))
        /\ last' = Call("load_from_file", 0, io)
    /\ ShellIdle
    /\ UNCHANGED <<manager, file, panicked, ever, assigned>>

Next ==
    \/ \E d \in Descriptions : AddTask(d)
    \/ \E id \in Ids, d \in Descriptions : EditTask(id, d)
    \/ \E id \in Ids : DeleteTask(id)
    \/ \E id \in Ids : MarkCompleted(id)
    \/ SaveToFile
    \/ LoadFromFile

Spec == Init /\ [][Next]_vars

----------------------------------------------------------------------------
(* Start-up: ToDoApp::new() loads whatever FILE_NAME holds *)

\* repositories whose serialization may be found in the file at start-up: the
\* empty one, one that save_to_file wrote, and ones only an edited file can
\* hold (an id not below next_id, the same id twice)
StartRepos ==
    { default,
      TaskRepository(<<Task(0, <<"a", "\"", "\\">>, TRUE)>>, 1),
      TaskRepository(<<Task(0, <<>>, FALSE), Task(1, <<"a">>, FALSE)>>, 2),
      TaskRepository(<<Task(1, <<"a">>, FALSE)>>, 0),
      TaskRepository(<<Task(0, <<"a">>, FALSE), Task(0, <<>>, TRUE)>>, 1) }

WellFormedTexts == { to_string(r) : r \in StartRepos }

\* texts that are not RON for a TaskRepository: the empty file, a word, what a
\* failed write leaves (a proper prefix), text after the closing parenthesis,
\* an unknown escape sequence in a description
MalformedTexts ==
    { <<>>, <<"x">> }
    \cup { SubSeq(t, 1, Len(t) - 1) : t \in WellFormedTexts }
    \cup { SubSeq(t, 1, Len(t) \div 2) : t \in WellFormedTexts }
    \cup { t \o <<"x">> : t \in WellFormedTexts }
    \cup { KwTasks \o <<"[">> \o KwId \o <<"0">> \o KwDescription
             \o <<"\"", "\\", "q", "\"">> \o KwCompleted \o serialize_bool(FALSE)
             \o <<")", "]">> \o KwNextId \o <<"1", ")">> }

StartFiles ==
    {NoFile} \cup { FileOf(t) : t \in WellFormedTexts \cup MalformedTexts }

InitStart ==
    /\ file \in StartFiles
    /\ \E io \in LoadOutcomes :
        /\ manager = load_from_file(file, io)
        /\ last = Call("load_from_file", 0, io)
    /\ ret = Some(manager)
    /\ new_description = <<>>
    /\ edit_description = <<>>
    /\ show_edit_popup = FALSE
    /\ edit_id_task = None
    /\ panicked = FALSE
    /\ ever = TaskIds(manager.tasks)
    /\ assigned = <<>>

NextStart ==
    \/ \E d \in Descriptions : AddTask(d)
    \/ \E id \in Ids, d \in Descriptions : EditTask(id, d)
    \/ \E id \in Ids : DeleteTask(id)
    \/ \E id \in Ids : MarkCompleted(id)
    \/ LoadFromFile

SpecStart == InitStart /\ [][NextStart]_vars

----------------------------------------------------------------------------
(* The shell: one action per widget of ToDoApp::update.  Every handler that  *)
(* changes the repository ends with save_to_file, so in the shell last is    *)
(* the most recent save_to_file call and last.io its outcome.                *)

\* ui.text_edit_singleline(&mut self.new_description)
TypeNew(text) ==
    /\ ~panicked
    /\ new_description' = text
    /\ ret' = None
    /\ UNCHANGED <<manager, file, edit_description, show_edit_popup, edit_id_task,
                   panicked, last, ever, assigned>>

\* the add button: clicked() && !new_description.is_empty()
ClickAdd ==
    /\ ~panicked
    /\ new_description # <<>>
    /\ manager.next_id < MaxNextId
    /\ manager' = add_task(manager, new_description)
    /\ new_description' = <<>>
    /\ \E c \in SaveCases(manager') :
        LET s == save_to_file(manager', file, c[1], c[2]) IN
        /\ file' = s.file
        /\ panicked' = s.panicked
        /\ last' = Call("save_to_file", 0, c[1])
    /\ assigned' = Append(assigned, manager'.tasks[Len(manager'.tasks)].id)
    /\ History(manager')
    /\ ret' = None
    /\ UNCHANGED <<edit_description, show_edit_popup, edit_id_task>>

\* the edit button of the i-th displayed task
ClickEdit(i) ==
    /\ ~panicked
    /\ i \in 1..Len(manager.tasks)
    /\ show_edit_popup' = TRUE
    /\ edit_id_task' = Some(manager.tasks[i].id)
    /\ edit_description' = manager.tasks[i].description
    /\ ret' = None
    /\ UNCHANGED <<manager, file, new_description, panicked, last, ever, assigned>>

\* the complete button of the i-th displayed task, shown if !task.completed
ClickComplete(i) ==
    /\ ~panicked
    /\ i \in 1..Len(manager.tasks)
    /\ ~manager.tasks[i].completed
    /\ manager' = mark_completed(manager, manager.tasks[i].id)
    /\ \E c \in SaveCases(manager') :
        LET s == save_to_file(manager', file, c[1], c[2]) IN
        /\ file' = s.file
        /\ panicked' = s.panicked
        /\ last' = Call("save_to_file", 0, c[1])
    /\ History(manager')
    /\ ret' = None
    /\ UNCHANGED <<new_description, edit_description, show_edit_popup,
                   edit_id_task, assigned>>

\* the delete button without the save_to_file call
ClickDelete_unsaved(i) ==
    /\ ~panicked
    /\ i \in 1..Len(manager.tasks)
    /\ manager' = delete_task(manager, manager.tasks[i].id)
    /\ History(manager')
    /\ ret' = None
    /\ UNCHANGED <<file, panicked, last, new_description, edit_description,
                   show_edit_popup, edit_id_task, assigned>>

\* the delete button of the i-th displayed task
ClickDelete(i) ==
    /\ ~panicked
    /\ i \in 1..Len(manager.tasks)
    /\ manager' = delete_task(manager, manager.tasks[i].id)
    /\ \E c \in SaveCases(manager') :
        LET s == save_to_file(manager', file, c[1], c[2]) IN
        /\ file' = s.file
        /\ panicked' = s.panicked
        /\ last' = Call("save_to_file", 0, c[1])
    /\ History(manager')
    /\ ret' = None
    /\ UNCHANGED <<new_description, edit_description, show_edit_popup,
                   edit_id_task, assigned>>

\* ui.text_edit_singleline(&mut self.edit_description) in the popup
TypeEdit(text) ==
    /\ ~panicked
    /\ show_edit_popup
    /\ edit_description' = text
    /\ ret' = None
    /\ UNCHANGED <<manager, file, new_description, show_edit_popup, edit_id_task,
                   panicked, last, ever, assigned>>

\* the save button of the popup; the popup closes after save_to_file returned
ClickSave ==
    /\ ~panicked
    /\ show_edit_popup
    /\ IF edit_id_task.some
       THEN /\ manager' = edit_task(manager, edit_id_task.val, edit_description)
            /\ \E c \in SaveCases(manager') :
                LET s == save_to_file(manager', file, c[1], c[2]) IN
                /\ file' = s.file
                /\ panicked' = s.panicked
                /\ show_edit_popup' = s.panicked
                /\ last' = Call("save_to_file", 0, c[1])
       ELSE /\ show_edit_popup' = FALSE
            /\ UNCHANGED <<manager, file, panicked, last>>
    /\ History(manager')
    /\ ret' = None
    /\ UNCHANGED <<new_description, edit_description, edit_id_task, assigned>>

\* the cancel button of the popup
ClickCancel ==
    /\ ~panicked
    /\ show_edit_popup
    /\ show_edit_popup' = FALSE
    /\ ret' = None
    /\ UNCHANGED <<manager, file, new_description, edit_description, edit_id_task,
                   panicked, last, ever, assigned>>

\* ToDoApp::new() with no file on disk
InitShell ==
    /\ file = NoFile
    /\ \E io \in LoadOutcomes : manager = load_from_file(file, io)
    /\ new_description = <<>>
    /\ edit_description = <<>>
    /\ show_edit_popup = FALSE
    /\ edit_id_task = None
    /\ panicked = FALSE
    /\ ret = None
    /\ last = Call("new", 0, "none")
    /\ ever = {}
    /\ assigned = <<>>

NextShell ==
    \/ \E text \in Descriptions : TypeNew(text)
    \/ ClickAdd
    \/ \E i \in 1..MaxNextId : ClickEdit(i)
    \/ \E i \in 1..MaxNextId : ClickComplete(i)
    \/ \E i \in 1..MaxNextId : ClickDelete(i)
    \/ \E text \in Descriptions : TypeEdit(text)
    \/ ClickSave
    \/ ClickCancel

SpecShell == InitShell /\ [][NextShell]_vars

----------------------------------------------------------------------------
(* Properties *)

\* the file f holds the repository repo: it exists and parses to repo
FileHolds(f, repo) ==
    /\ f.present
    /\ from_str(f.data).ok
    /\ from_str(f.data).val = repo

\* C1: next_id is strictly greater than the id of every task that is or ever
\* was in tasks, from whatever load_from_file returned at start-up on.
NextIdAboveEveryId == \A id \in ever : id < manager.next_id

\* C2: starting empty, the ids that add_task gives out are strictly increasing
\* (so pairwise distinct and never given out twice), and next_id counts the
\* add_task calls alone: a delete_task in between does not lower it.
IdsNeverReused ==
    /\ \A i, j \in 1..Len(assigned) : i < j => assigned[i] < assigned[j]
    /\ manager.next_id = Len(assigned)
    /\ \A id \in ever : \E i \in 1..Len(assigned) : assigned[i] = id

\* C2 witness: add, delete(0), add has given the second task the id 1
IdsNeverReusedWitness ==
    /\ assigned = <<0, 1>>
    /\ last.op = "add_task"
    /\ Len(manager.tasks) = 1
    /\ manager.tasks[1].id = 1

\* C3: a load_from_file that follows a save_to_file of the repository, both
\* with the file system answering, returns a repository equal to the saved
\* one: same tasks in the same order, same fields, same next_id.
RoundTrip ==
    [][ ( /\ last.op = "save_to_file" /\ last.io = "ok"
          /\ last'.op = "load_from_file" /\ last'.io = "ok" )
        => ret' = Some(manager) ]_vars

\* C3 witness: a repository with an empty description, a description with a
\* quote and a backslash, the id 0 and a completed flag came back from the file
RoundTripWitness ==
    /\ last.op = "load_from_file"
    /\ last.io = "ok"
    /\ ret = Some(manager)
    /\ Len(manager.tasks) = 2
    /\ manager.tasks[1].id = 0
    /\ manager.tasks[1].description = <<>>
    /\ manager.tasks[2].description = <<"a", "\"", "\\">>
    /\ manager.tasks[2].completed

\* C4: a save_to_file that meets a failure, of File::create or of write_all,
\* returns normally: the repository is unchanged and the process lives on.
SaveFailureIgnored ==
    [][ (last'.op = "save_to_file" /\ last'.io # "ok")
        => (manager' = manager /\ ~panicked') ]_vars

\* C5: edit_task, delete_task and mark_completed with an id that no task has
\* leave the repository as it was, touch nothing else and raise no error.
UnknownIdIsNoOp ==
    [][ ( /\ last'.op \in {"edit_task", "delete_task", "mark_completed"}
          /\ last'.id \notin TaskIds(manager.tasks) )
        => (manager' = manager /\ file' = file /\ ~panicked') ]_vars

\* C5 witness: mark_completed was called with an id that no task has, on a
\* repository that holds a task
UnknownIdIsNoOpWitness ==
    /\ last.op = "mark_completed"
    /\ last.id \notin TaskIds(manager.tasks)
    /\ manager.tasks # <<>>

\* the text is not RON for a TaskRepository
Unparsable(data) == \A r \in StartRepos : data # to_string(r)

\* C6: load_from_file always returns a repository: the default one when the
\* file is absent, cannot be opened or read, or does not parse; and the
\* repository that the text stands for when it does.
LoadNeverFails ==
    last.op = "load_from_file" =>
        /\ ret.some
        /\ ~panicked
        /\ (~file.present \/ last.io # "ok" \/ Unparsable(file.data))
              => ret.val = default
        /\ (file.present /\ last.io = "ok")
              => \A r \in StartRepos : file.data = to_string(r) => ret.val = r

\* C6 witness: the file read at start-up was cut short and the default
\* repository came back
LoadNeverFailsWitness ==
    /\ last.op = "load_from_file"
    /\ last.io = "ok"
    /\ file.present
    /\ Len(file.data) > 1
    /\ Unparsable(file.data)
    /\ ret = Some(default)

\* C7: edit_task on an id that a task has changes nothing but the description
\* of the task with that id: ids, completed flags, the other tasks, the order
\* and the length of tasks and next_id stay.
EditChangesOnlyDescription ==
    [][ (last'.op = "edit_task" /\ last'.id \in TaskIds(manager.tasks))
        => /\ manager'.next_id = manager.next_id
           /\ Len(manager'.tasks) = Len(manager.tasks)
           /\ \A i \in 1..Len(manager.tasks) :
                /\ manager'.tasks[i].id = manager.tasks[i].id
                /\ manager'.tasks[i].completed = manager.tasks[i].completed
                /\ manager.tasks[i].id # last'.id
                     => manager'.tasks[i] = manager.tasks[i]
           /\ file' = file ]_vars

\* C7 witness: edit_task has emptied the description of a completed task that
\* is not the only one
EditChangesOnlyDescriptionWitness ==
    /\ last.op = "edit_task"
    /\ Len(manager.tasks) = 2
    /\ \E i \in 1..2 :
        /\ manager.tasks[i].id = last.id
        /\ manager.tasks[i].completed
        /\ manager.tasks[i].description = <<>>

\* C8: mark_completed applied twice gives what it gives applied once, for
\* every id, and after it the task with that id, if any, is completed.
MarkCompletedIdempotent ==
    /\ \A id \in Ids :
        LET once == mark_completed(manager, id) IN
        /\ mark_completed(once, id) = once
        /\ \A i \in 1..Len(once.tasks) :
             once.tasks[i].id = id => once.tasks[i].completed
    /\ last.op = "mark_completed" =>
        /\ mark_completed(manager, last.id) = manager
        /\ \A i \in 1..Len(manager.tasks) :
             manager.tasks[i].id = last.id => manager.tasks[i].completed

\* C8 witness: mark_completed was called on a task of the repository
MarkCompletedIdempotentWitness ==
    /\ last.op = "mark_completed"
    /\ \E i \in 1..Len(manager.tasks) :
         manager.tasks[i].id = last.id /\ manager.tasks[i].completed

\* C9 as stated: once a handler of the shell has changed and saved the
\* repository, the file holds the repository whenever the shell is idle.
FileFollowsMemory ==
    (~panicked /\ last.op = "save_to_file") => FileHolds(file, manager)

\* C9 amended: the file holds the repository whenever the shell is idle and
\* the most recent save_to_file call created and wrote the file.
FileFollowsSuccessfulSave ==
    (~panicked /\ last.op = "save_to_file" /\ last.io = "ok")
        => FileHolds(file, manager)

\* C9 witness: the shell is idle after a handler saved a repository that
\* holds a completed task
FileFollowsSuccessfulSaveWitness ==
    /\ ~panicked
    /\ last.op = "save_to_file"
    /\ last.io = "ok"
    /\ \E i \in 1..Len(manager.tasks) : manager.tasks[i].completed
    /\ FileHolds(file, manager)

\* C10: through the shell no task of the repository ever has an empty
\* description.
NoEmptyDescription ==
    \A i \in 1..Len(manager.tasks) : manager.tasks[i].description # <<>>

====
